---- MODULE Spec2Model ----
(***************************************************************************)
(* PrisonPal: the RAG engine (src/src/rag_engine.py) over one Qdrant        *)
(* collection, with the configuration it reads (src/src/config.py).        *)
(*                                                                         *)
(* The Qdrant backend is the pair (collCount, points): how many            *)
(* collections carry the configured name, and how many points hold each    *)
(* chunk's text. The engine is the pair (engine, vectorstore).  Every      *)
(* external call (Qdrant, Cohere embedding, Cohere chat, PDF extraction)    *)
(* may fail; which call fails is an input of the operation.                *)
(***************************************************************************)
EXTENDS Integers, Sequences, FiniteSets

VARIABLES
    PDF_PATHS,    \* config.PDF_PATHS as load_all_documents reads it
    engine,       \* "absent" | "constructed": whether RAGEngine() has returned
    vectorstore,  \* self.vectorstore: "None" | "QdrantVectorStore"
    collCount,    \* collections named COLLECTION_NAME in the Qdrant backend
    points,       \* chunk -> number of points of the collection holding it
    last,         \* what the last operation was given and what it answered
    fetch,        \* the last call of GovUKSearcher and what it returned
    classified,   \* the last query classified and its topic
    session,      \* the process configuration and st.session_state
    procs         \* the handlers in flight of the sessions sharing the collection

vars == <<PDF_PATHS, engine, vectorstore, collCount, points, last,
          fetch, classified, session, procs>>

\* the state outside the engine and its collection
others == <<fetch, classified, session, procs>>

---------------------------------------------------------------------------
(* Bounds of the model *)

\* add_documents is not offered once a chunk would exceed this many copies
MaxCopies == 2

---------------------------------------------------------------------------
(* Program constants *)

\* search_kwargs "k": 5
K == 5
\* search_kwargs "score_threshold": 0.6, in hundredths
ScoreThreshold == 60

Apology == "I apologize, but I couldn't find specific information to answer your question in the available documents. Please contact the prison directly for more information."

\* the text response['answer'] carries: the chat model's output is opaque
GeneratedText == "generated answer"

---------------------------------------------------------------------------
(* Documents and chunks *)

\* the documents config.PDF_PATHS lists when it is defined, in dict order
ConfiguredPaths == <<1, 2, 3>>
\* the documents a caller hands to add_documents: one that is also
\* configured (a re-upload) and one that is not
UploadDocs == {1, 4}
Chunks == {1, 2, 3, 4, 5}

\* process_document(path): the chunks the splitter returns for a document
process_document(d) ==
    CASE d = 1 -> <<1, 2>>
      [] d = 2 -> <<3>>
      [] d = 3 -> <<4>>
      [] OTHER -> <<5>>

Range(s) == {s[i] : i \in DOMAIN s}

NoPoints == [c \in Chunks |-> 0]

\* QdrantVectorStore.add_documents: every chunk becomes one new point
Insert(pts, chunks) ==
    [c \in Chunks |-> pts[c] + Cardinality({i \in DOMAIN chunks : chunks[i] = c})]

---------------------------------------------------------------------------
(* Queries, the lexical topic rules and the similarity search *)

QWearId == <<"w", "e", "a", "r", " ", "I", "D">>
QId     == <<"I", "D">>
QDress  == <<"D", "r", "e", "s", "s">>
QHi     == <<"h", "i">>
Queries == {QWearId, QId, QDress, QHi}

UpperCase == <<"A","B","C","D","E","F","G","H","I","J","K","L","M",
               "N","O","P","Q","R","S","T","U","V","W","X","Y","Z">>
LowerCase == <<"a","b","c","d","e","f","g","h","i","j","k","l","m",
               "n","o","p","q","r","s","t","u","v","w","x","y","z">>

\* str.lower()
Lower(q) ==
    [i \in DOMAIN q |->
        IF \E j \in DOMAIN UpperCase : UpperCase[j] = q[i]
        THEN LowerCase[CHOOSE j \in DOMAIN UpperCase : UpperCase[j] = q[i]]
        ELSE q[i]]

\* sub in s
Contains(s, sub) ==
    \E i \in 0..(Len(s) - Len(sub)) :
        \A j \in 1..Len(sub) : s[i + j] = sub[j]

\* the two rules tried in the other order
query_type_id_first(q) ==
    IF Contains(Lower(q), <<"i","d">>)
       \/ Contains(Lower(q), <<"i","d","e","n","t","i","f","i","c","a","t","i","o","n">>)
    THEN "id"
    ELSE IF Contains(Lower(q), <<"d","r","e","s","s">>)
            \/ Contains(Lower(q), <<"w","e","a","r">>)
         THEN "dress_code"
         ELSE "general"

\* the query_type of process_query
query_type(q) ==
    IF Contains(Lower(q), <<"d","r","e","s","s">>)
       \/ Contains(Lower(q), <<"w","e","a","r">>)
    THEN "dress_code"
    ELSE IF Contains(Lower(q), <<"i","d">>)
            \/ Contains(Lower(q), <<"i","d","e","n","t","i","f","i","c","a","t","i","o","n">>)
         THEN "id"
         ELSE "general"

\* cosine similarity of the query's embedding and the chunk's, in
\* hundredths: the embedding model is opaque, so the scores are a table
Score(q, c) ==
    CASE q = QWearId -> <<70, 65, 80, 62, 75>>[c]
      [] q = QId     -> <<85, 60, 40, 59, 30>>[c]
      [] q = QDress  -> <<20, 35, 90, 55, 61>>[c]
      [] OTHER       -> <<10, 12, 15, 72, 5>>[c]

Copies(c, n) == [i \in 1..n |-> c]

\* the points of the collection by descending score
RECURSIVE Ranked(_, _, _)
Ranked(pts, q, S) ==
    IF S = {} THEN <<>>
    ELSE LET best == CHOOSE c \in S : \A d \in S : Score(q, c) >= Score(q, d)
         IN  Copies(best, pts[best]) \o Ranked(pts, q, S \ {best})

Prefix(s, n) == SubSeq(s, 1, IF Len(s) < n THEN Len(s) ELSE n)

AboveThreshold(q, c) == Score(q, c) >= ScoreThreshold

\* retriever.get_relevant_documents(query): the k nearest points, of which
\* those at or above the score threshold are kept
get_relevant_documents(pts, q) ==
    LET nearest == Prefix(Ranked(pts, q, {c \in Chunks : pts[c] > 0}), K)
    IN  SelectSeq(nearest, LAMBDA c : AboveThreshold(q, c))

---------------------------------------------------------------------------
(* The engine's methods, as functions of the engine-and-backend state      *)
(*   e = [collCount, points, vectorstore, err, creates, printed]           *)
(* err is the exception the call raised ("" when it returned), creates the *)
(* create_collection requests sent, printed the documents whose loading    *)
(* error load_all_documents printed.  fault names the external call that   *)
(* fails when it is reached.                                               *)

\* qdrant_client.create_collection: a name that is taken is a conflict
create_collection(e, fault) ==
    LET sent == [e EXCEPT !.creates = @ + 1]
    IN  IF fault = "create" THEN [sent EXCEPT !.err = "unavailable"]
        ELSE IF e.collCount > 0 THEN [sent EXCEPT !.err = "already exists"]
        ELSE [sent EXCEPT !.collCount = 1, !.points = NoPoints]

\* init_vectorstore resetting the collection it connects to
init_vectorstore_recreates(e, fault) ==
    LET r == create_collection([e EXCEPT !.collCount = 0, !.points = NoPoints], fault)
    IN  IF r.err # "" /\ r.err # "already exists"
        THEN r
        ELSE [r EXCEPT !.err = "", !.vectorstore = "QdrantVectorStore"]

\* init_vectorstore re-raising every exception of create_collection
init_vectorstore_strict(e, fault) ==
    LET r == create_collection(e, fault)
    IN  IF r.err # ""
        THEN r
        ELSE [r EXCEPT !.vectorstore = "QdrantVectorStore"]

init_vectorstore(e, fault) ==
    LET r == create_collection(e, fault)
    IN  IF r.err # "" /\ r.err # "already exists"
        THEN r
        ELSE [r EXCEPT !.err = "", !.vectorstore = "QdrantVectorStore"]

\* clear_vectorstore without its last line
clear_vectorstore_keeps_handle(e, fault) ==
    IF fault = "exists" THEN [e EXCEPT !.err = "unavailable"]
    ELSE IF e.collCount > 0
         THEN IF fault = "delete" THEN [e EXCEPT !.err = "unavailable"]
              ELSE [e EXCEPT !.collCount = 0, !.points = NoPoints]
         ELSE e

clear_vectorstore(e, fault) ==
    IF fault = "exists" THEN [e EXCEPT !.err = "unavailable"]
    ELSE IF e.collCount > 0
         THEN IF fault = "delete" THEN [e EXCEPT !.err = "unavailable"]
              ELSE [e EXCEPT !.collCount = 0, !.points = NoPoints,
                             !.vectorstore = "None"]
         ELSE [e EXCEPT !.vectorstore = "None"]

\* add_documents replacing the contents of the collection
add_documents_replaces(e, documents, fault) ==
    LET r == IF e.vectorstore = "None" THEN init_vectorstore(e, fault) ELSE e
    IN  IF r.err # "" THEN r
        ELSE IF fault = "insert" \/ r.collCount = 0
             THEN [r EXCEPT !.err = "unavailable"]
             ELSE [r EXCEPT !.points = Insert(NoPoints, documents)]

\* an insert into a collection that does not exist is refused by the backend
add_documents(e, documents, fault) ==
    LET r == IF e.vectorstore = "None" THEN init_vectorstore(e, fault) ELSE e
    IN  IF r.err # "" THEN r
        ELSE IF fault = "insert" \/ r.collCount = 0
             THEN [r EXCEPT !.err = "unavailable"]
             ELSE [r EXCEPT !.points = Insert(@, documents)]

\* the loop without its try: the first failure ends the load
RECURSIVE LoadLoop_aborts(_, _, _, _)
LoadLoop_aborts(e, paths, i, outcome) ==
    IF i > Len(paths) THEN e
    ELSE LET d == paths[i]
             r == IF outcome[d] = "extract"
                  THEN [e EXCEPT !.err = "extract"]
                  ELSE add_documents(e, process_document(d),
                                     IF outcome[d] = "insert" THEN "insert" ELSE "none")
         IN  IF r.err # "" THEN r
             ELSE LoadLoop_aborts(r, paths, i + 1, outcome)

\* the body of the for loop of load_all_documents, from document i on;
\* outcome[d] is "ok", "extract" (process_document raises) or "insert"
\* (add_documents raises)
RECURSIVE LoadLoop(_, _, _, _)
LoadLoop(e, paths, i, outcome) ==
    IF i > Len(paths) THEN e
    ELSE LET d == paths[i]
             r == IF outcome[d] = "extract"
                  THEN [e EXCEPT !.err = "extract"]
                  ELSE add_documents(e, process_document(d),
                                     IF outcome[d] = "insert" THEN "insert" ELSE "none")
         IN  LoadLoop(IF r.err # ""
                      THEN [e EXCEPT !.printed = Append(@, d)]
                      ELSE r,
                      paths, i + 1, outcome)

\* load_all_documents without the reset of the collection
load_all_documents_incremental(e, cfg, fault, outcome) ==
    LET ready == init_vectorstore(e, fault)
    IN  IF ready.err # "" THEN ready
        ELSE IF ~cfg.defined THEN [ready EXCEPT !.err = "AttributeError"]
        ELSE LoadLoop(ready, cfg.paths, 1, outcome)

\* config.PDF_PATHS is evaluated after the collection was reset, outside
\* the try of the loop
load_all_documents(e, cfg, fault, outcome) ==
    LET cleared == clear_vectorstore(e, fault)
        ready   == IF cleared.err # "" THEN cleared
                   ELSE init_vectorstore(cleared, fault)
    IN  IF ready.err # "" THEN ready
        ELSE IF ~cfg.defined THEN [ready EXCEPT !.err = "AttributeError"]
        ELSE LoadLoop(ready, cfg.paths, 1, outcome)

\* RAGEngine.__init__; fault "init" fails the constructor's own
\* init_vectorstore, the other faults belong to load_all_documents
RAGEngine_init(e, cfg, fault, outcome) ==
    LET fresh == [e EXCEPT !.vectorstore = "None"]
        r     == init_vectorstore(fresh, IF fault = "init" THEN "create" ELSE "none")
    IN  IF r.err # "" THEN r
        ELSE load_all_documents(r, cfg, fault, outcome)

\* what process_query hands back: the engine-and-backend state e, and
\*   hits      relevant_docs, the result of the first retrieval
\*   context   the documents the retrieval chain stuffed into the prompt
\*   prompt    the template chosen by query_type
\*   generated calls of the chat model
\*   fetched   URLs requested from gov.uk
NoResult(e) ==
    [e |-> e, hits |-> <<>>, context |-> <<>>, prompt |-> "", generated |-> 0,
     fetched |-> <<>>, answer |-> "", evidence |-> <<>>]

\* one retrieval: embed the query, then search the collection
Retrieve(e, q, embedFault, searchFault) ==
    IF embedFault THEN [err |-> "embedding", docs |-> <<>>]
    ELSE IF searchFault \/ e.collCount = 0 THEN [err |-> "unavailable", docs |-> <<>>]
    ELSE [err |-> "", docs |-> get_relevant_documents(e.points, q)]

\* GovUKSearcher.urls: the page of each topic
urls(topic) ==
    CASE topic = "id" -> "GOV_UK_ID_URL"
      [] topic = "dress_code" -> "GOV_UK_DRESS_CODE_URL"
      [] topic = "base" -> "GOV_UK_BASE_URL"
      [] OTHER -> "KeyError"

Raise(ready, err) == NoResult([ready EXCEPT !.err = err])

\* the branch returning the answer without its sources
LocalAnswer_drops_evidence(ready, q, relevant_docs, fault) ==
    LET again == Retrieve(ready, q, fault = "embed2", fault = "search2")
    IN  IF again.err # "" THEN Raise(ready, again.err)
        ELSE IF fault = "generate" THEN Raise(ready, "generation")
        ELSE [e |-> ready, hits |-> relevant_docs, context |-> again.docs,
              prompt |-> query_type(q), generated |-> 1, fetched |-> <<>>,
              answer |-> GeneratedText, evidence |-> <<>>]

\* the branch "if relevant_docs:": the prompt of the query's type, then the
\* retrieval chain, which retrieves again and calls the chat model
LocalAnswer(ready, q, relevant_docs, fault) ==
    LET again == Retrieve(ready, q, fault = "embed2", fault = "search2")
    IN  IF again.err # ""
        THEN [Raise(ready, again.err) EXCEPT !.hits = relevant_docs,
                                             !.prompt = query_type(q)]
        ELSE IF fault = "generate"
        THEN [Raise(ready, "generation") EXCEPT !.hits = relevant_docs,
                                                !.context = again.docs,
                                                !.prompt = query_type(q),
                                                !.generated = 1]
        ELSE [e |-> ready, hits |-> relevant_docs, context |-> again.docs,
              prompt |-> query_type(q), generated |-> 1, fetched |-> <<>>,
              answer |-> GeneratedText, evidence |-> relevant_docs]

\* the final return replaced by an answer of the chat model without documents
NoAnswer_generated(ready) ==
    [NoResult(ready) EXCEPT !.answer = GeneratedText, !.generated = 1]

\* the final return of process_query
NoAnswer(ready) == [NoResult(ready) EXCEPT !.answer = Apology]

\* process_query without the lazy init_vectorstore: None has no as_retriever
process_query_no_init(e, q, fault) ==
    LET first == Retrieve(e, q, fault = "embed1", fault = "search1")
    IN  IF e.vectorstore = "None" THEN Raise(e, "AttributeError")
        ELSE IF first.err # "" THEN Raise(e, first.err)
        ELSE IF first.docs # <<>>
        THEN LocalAnswer(e, q, first.docs, fault)
        ELSE NoAnswer(e)

process_query(e, q, fault) ==
    LET ready == IF e.vectorstore = "None" THEN init_vectorstore(e, fault) ELSE e
        first == Retrieve(ready, q, fault = "embed1", fault = "search1")
    IN  IF ready.err # "" THEN NoResult(ready)
        ELSE IF first.err # "" THEN Raise(ready, first.err)
        ELSE IF first.docs # <<>>
        THEN LocalAnswer(ready, q, first.docs, fault)
        ELSE NoAnswer(ready)

---------------------------------------------------------------------------
(* The state machine: one engine on the shared collection *)

DocOutcomes == [Range(ConfiguredPaths) -> {"ok", "extract", "insert"}]
NoOutcome == [d \in Range(ConfiguredPaths) |-> "-"]

Engine ==
    [collCount |-> collCount, points |-> points, vectorstore |-> vectorstore,
     err |-> "", creates |-> 0, printed |-> <<>>]

Commit(r) ==
    /\ collCount' = r.collCount
    /\ points' = r.points
    /\ vectorstore' = r.vectorstore

Outcome(r) == IF r.err = "" THEN "returned" ELSE "raised"

\* the operation that returned just before this one
Returned(l) == IF l.outcome = "returned" THEN l.op ELSE "none"

\* a fault is offered where the call it names is reached, and the outcomes
\* of the documents where the loop is reached
Reached(fault, r) == fault = "none" \/ r.err # ""
AllOk == [d \in Range(ConfiguredPaths) |-> "ok"]
LoopReached(fault, outcome) ==
    outcome = AllOk \/ (fault = "none" /\ PDF_PATHS.defined)

\* nothing fetched, classified, configured or in flight yet
NoFetch ==
    [op |-> "none", topic |-> <<>>, responses |-> <<>>, url |-> "", attempts |-> 0,
     printed |-> 0, kind |-> "None", text |-> <<>>, error |-> ""]
NoClassified == [op |-> "none", query |-> <<>>, topic |-> "general"]

\* the process environment: a variable is "unset", empty, or holds a value
Environ(cohere, qkey, qurl, base, id, dress) ==
    [COHERE_API_KEY |-> cohere, QDRANT_API_KEY |-> qkey, QDRANT_URL |-> qurl,
     GOV_UK_BASE_URL |-> base, GOV_UK_ID_URL |-> id, GOV_UK_DRESS_CODE_URL |-> dress]

Environs ==
    {Environ("value", "value", "value", "unset", "unset", "unset"),
     Environ("value", "value", "value", "value", "value", "value"),
     Environ("value", "value", "value", "unset", "", "unset"),
     Environ("unset", "value", "value", "unset", "unset", "unset"),
     Environ("value", "", "value", "unset", "unset", "unset"),
     Environ("value", "value", "unset", "unset", "unset", "unset")}

\* config.py not imported yet
NoConfig == Environ("None", "None", "None", "None", "None", "None")

\* what one run of the script did: the widget that triggered it, the file
\* in the uploader, processed_file when the run began, and the calls made
NoRun ==
    [trigger |-> "none", upload |-> 0, keyBefore |-> "absent",
     ingested |-> FALSE, ingestOk |-> FALSE, queried |-> FALSE,
     hadEngine |-> TRUE, error |-> ""]

\* the process before app.py is imported, with an empty st.session_state;
\* a key of the session state is "absent" until it is stored
NoSession ==
    [phase |-> "start",
     environ |-> Environ("unset", "unset", "unset", "unset", "unset", "unset"),
     config |-> NoConfig,
     api_keys_submitted |-> "absent", processed_file |-> "absent",
     chat_history |-> <<>>,
     validated |-> NoConfig, built_with |-> NoConfig,
     run |-> NoRun]

\* the browser sessions, each a script thread with an engine of its own
Sessions == {1, 2}

\* a session between two runs: no engine yet, nothing in flight
\*   pc     the backend call the handler makes next
\*   next   where the handler goes on after init_vectorstore
\*   i      the position of load_all_documents in PDF_PATHS
NoProc ==
    [pc |-> "idle", op |-> "none", next |-> "idle", rag_engine |-> "absent",
     vectorstore |-> "None", query |-> <<>>, doc |-> 0, i |-> 0,
     hits |-> <<>>, context |-> <<>>, answer |-> "", evidence |-> <<>>,
     printed |-> <<>>, error |-> ""]
NoProcs == [p \in Sessions |-> NoProc]

\* the record of an operation: its inputs and what came back; for the
\* submit handler, built tells that RAGEngine() returned and loaded is the
\* collection it left to the init_vectorstore() that follows
Base(op, fault, r) ==
    [op |-> op, prev |-> Returned(last), fault |-> fault, outcome |-> Outcome(r), error |-> r.err,
     hadPoints |-> points # NoPoints,
     sinceClear |-> IF op = "clear" THEN r.err = "" \/ last.sinceClear
                    ELSE IF op \in {"query", "init"} THEN last.sinceClear
                    ELSE FALSE,
     built |-> FALSE, loaded |-> NoPoints,
     creates |-> r.creates, printed |-> r.printed, docs |-> NoOutcome, doc |-> 0,
     query |-> <<>>, hits |-> <<>>, context |-> <<>>, prompt |-> "",
     generated |-> 0, fetched |-> <<>>, answer |-> "", evidence |-> <<>>]

NoLast ==
    [op |-> "none", prev |-> "none", fault |-> "none", outcome |-> "none", error |-> "",
     hadPoints |-> FALSE, sinceClear |-> FALSE,
     built |-> FALSE, loaded |-> NoPoints,
     creates |-> 0, printed |-> <<>>, docs |-> NoOutcome, doc |-> 0,
     query |-> <<>>, hits |-> <<>>, context |-> <<>>, prompt |-> "",
     generated |-> 0, fetched |-> <<>>, answer |-> "", evidence |-> <<>>]

\* no engine yet, and the collection as an earlier run of the application
\* left it: absent, empty, or holding an uploaded document
InitEngine ==
    /\ engine = "absent"
    /\ vectorstore = "None"
    /\ \/ collCount = 0 /\ points = NoPoints
       \/ collCount = 1 /\ points \in {NoPoints, Insert(NoPoints, process_document(4))}
    /\ last = NoLast

InitOthers ==
    /\ fetch = NoFetch
    /\ classified = NoClassified
    /\ session = NoSession
    /\ procs = NoProcs

\* config.py defines no PDF_PATHS; a deployment that adds it lists the
\* configured documents
Init ==
    /\ PDF_PATHS \in {[defined |-> FALSE, paths |-> <<>>],
                      [defined |-> TRUE, paths |-> ConfiguredPaths]}
    /\ InitEngine
    /\ InitOthers

\* "Submit Credentials", shown until api_keys_submitted is True: RAGEngine()
\* is stored in st.session_state.rag_engine, then init_vectorstore() is called
\* on it; fault "init2" fails that call. The engine is
\*   "absent"       while rag_engine is None,
\*   "stored"       when rag_engine holds an engine and the flag is not True,
\*   "constructed"  when rag_engine holds an engine and the flag is True.
\* A constructor that raised leaves the engine stored before in its place.
Construct(fault, outcome) ==
    /\ engine # "constructed"
    /\ \E built \in {RAGEngine_init(Engine, PDF_PATHS,
                                    IF fault = "init2" THEN "none" ELSE fault, outcome)} :
       \E r \in {IF built.err # "" THEN built
                 ELSE init_vectorstore(built, IF fault = "init2" THEN "create" ELSE "none")} :
           /\ Reached(fault, r) /\ LoopReached(fault, outcome)
           /\ engine' = IF built.err # "" THEN engine
                        ELSE IF r.err # "" THEN "stored" ELSE "constructed"
           /\ collCount' = r.collCount
           /\ points' = r.points
           /\ vectorstore' = IF built.err # "" THEN vectorstore ELSE r.vectorstore
           /\ last' = [Base("construct", fault, r) EXCEPT
                          !.docs = outcome,
                          !.built = (built.err = ""),
                          !.loaded = IF built.err = "" THEN built.points ELSE NoPoints]
    /\ UNCHANGED <<PDF_PATHS, others>>

\* engine.init_vectorstore() called once more on the accepted engine
Initialize(fault) ==
    /\ engine = "constructed"
    /\ \E r \in {init_vectorstore(Engine, fault)} :
           Reached(fault, r) /\ Commit(r) /\ last' = Base("init", fault, r)
    /\ UNCHANGED <<PDF_PATHS, engine, others>>

LoadAll(fault, outcome) ==
    /\ engine = "constructed"
    /\ \E r \in {load_all_documents(Engine, PDF_PATHS, fault, outcome)} :
           /\ Reached(fault, r) /\ LoopReached(fault, outcome)
           /\ Commit(r)
           /\ last' = [Base("loadAll", fault, r) EXCEPT !.docs = outcome]
    /\ UNCHANGED <<PDF_PATHS, engine, others>>

\* process_uploaded_file: process_document, then add_documents
AddDocument(d, fault) ==
    /\ engine = "constructed"
    /\ \A c \in Range(process_document(d)) : points[c] < MaxCopies
    /\ \E r \in {IF fault = "extract" THEN [Engine EXCEPT !.err = "extract"]
                  ELSE add_documents(Engine, process_document(d), fault)} :
           /\ Reached(fault, r)
           /\ Commit(r)
           /\ last' = [Base("addDocument", fault, r) EXCEPT !.doc = d]
    /\ UNCHANGED <<PDF_PATHS, engine, others>>

Query(q, fault) ==
    /\ engine = "constructed"
    /\ \E a \in {process_query(Engine, q, fault)} :
           /\ Reached(fault, a.e)
           /\ Commit(a.e)
           /\ last' = [Base("query", fault, a.e) EXCEPT
                          !.query = q, !.hits = a.hits, !.context = a.context,
                          !.prompt = a.prompt, !.generated = a.generated,
                          !.fetched = a.fetched, !.answer = a.answer,
                          !.evidence = a.evidence]
    /\ UNCHANGED <<PDF_PATHS, engine, others>>

Clear(fault) ==
    /\ engine = "constructed"
    /\ \E r \in {clear_vectorstore(Engine, fault)} :
           Reached(fault, r) /\ Commit(r) /\ last' = Base("clear", fault, r)
    /\ UNCHANGED <<PDF_PATHS, engine, others>>

\* "Reset Credentials": st.session_state.clear() drops the engine object
ResetCredentials ==
    /\ engine = "constructed"
    /\ engine' = "absent"
    /\ vectorstore' = "None"
    /\ last' = Base("reset", "none", Engine)
    /\ UNCHANGED <<PDF_PATHS, collCount, points, others>>

Next ==
    \/ \E f \in {"none", "init", "exists", "delete", "create", "init2"} :
          \E o \in IF f = "none" THEN DocOutcomes ELSE {AllOk} : Construct(f, o)
    \/ \E f \in {"none", "create"} : Initialize(f)
    \/ \E f \in {"none", "exists", "delete", "create"} :
          \E o \in IF f = "none" THEN DocOutcomes ELSE {AllOk} : LoadAll(f, o)
    \/ \E d \in UploadDocs, f \in {"none", "extract", "create", "insert"} :
          AddDocument(d, f)
    \/ \E q \in Queries,
          f \in {"none", "create", "embed1", "search1", "embed2", "search2", "generate"} :
          Query(q, f)
    \/ \E f \in {"none", "exists", "delete"} : Clear(f)
    \/ ResetCredentials

Spec == Init /\ [][Next]_vars

-----------------------------------------------------------------------------
\* GovUKSearcher (web_search.py)

\* stop_after_attempt(3)
StopAfterAttempt == 3

\* topics as the caller may spell them
TopicId == <<"i", "d">>
TopicDress == <<"d", "r", "e", "s", "s", "_", "c", "o", "d", "e">>
TopicDressCaps == <<"D", "r", "e", "s", "s", "_", "C", "o", "d", "e">>
TopicGeneral == <<"g", "e", "n", "e", "r", "a", "l">>
Topics == {QId, TopicDressCaps, TopicGeneral}

\* the elements of a container: a tag and its text; "" is a text of
\* whitespace only
Node(tag, text) == [tag |-> tag, text |-> text]

\* response bodies: an empty body, a page without either container, a page
\* with both containers, a page with main only
PageEmpty == [body |-> "empty", hasGov |-> FALSE, gov |-> <<>>, hasMain |-> FALSE, main |-> <<>>]
PagePlain == [body |-> "html", hasGov |-> FALSE, gov |-> <<>>, hasMain |-> FALSE, main |-> <<>>]
PageGov ==
    [body |-> "html", hasGov |-> TRUE,
     gov |-> <<Node("p", "bring"), Node("script", "js"), Node("p", ""), Node("p", "passport")>>,
     hasMain |-> TRUE, main |-> <<Node("p", "menu")>>]
PageMain ==
    [body |-> "html", hasGov |-> FALSE, gov |-> <<>>,
     hasMain |-> TRUE, main |-> <<Node("style", "css"), Node("p", "plain"), Node("p", "clothes")>>]
Pages == {PageEmpty, PagePlain, PageGov, PageMain}

\* what one requests.get can meet
Ok(page) == [status |-> "ok", page |-> page]
Failed(status) == [status |-> status, page |-> PageEmpty]
Responses == {Ok(p) : p \in Pages} \cup {Failed(st) : st \in {"timeout", "non2xx"}}

\* get_text(separator=' ', strip=True) of a container whose script and
\* style elements were decomposed: the non-blank texts, in order
RECURSIVE get_text(_)
get_text(nodes) ==
    IF nodes = <<>> THEN <<>>
    ELSE LET n == Head(nodes)
         IN  IF n.tag \in {"script", "style"} \/ n.text = ""
             THEN get_text(Tail(nodes))
             ELSE <<n.text>> \o get_text(Tail(nodes))

parse_content(page) ==
    IF page.hasGov THEN get_text(page.gov)
    ELSE IF page.hasMain THEN get_text(page.main)
    ELSE <<>>

Text(page) == [kind |-> "text", page |-> page, error |-> "", printed |-> 0, attempts |-> 0]
None == [kind |-> "None", page |-> PageEmpty, error |-> "", printed |-> 1, attempts |-> 0]
Raised(error) ==
    [kind |-> "raise", page |-> PageEmpty, error |-> error, printed |-> 0, attempts |-> 0]

\* the body of _fetch_page with no except clause
fetch_page_body_unguarded(response) ==
    IF response.status = "ok" THEN Text(response.page)
    ELSE Raised("RequestException")

\* the body of _fetch_page: a RequestException is printed and answered by None
fetch_page_body(response) ==
    IF response.status = "ok" THEN Text(response.page)
    ELSE None

\* tenacity's retry: the body is called again only when it raised
RECURSIVE fetch_page(_, _)
fetch_page(responses, n) ==
    LET r == fetch_page_body(responses[n])
    IN  IF r.kind = "raise"
        THEN IF n >= StopAfterAttempt
             THEN [r EXCEPT !.error = "RetryError", !.attempts = n]
             ELSE fetch_page(responses, n + 1)
        ELSE [r EXCEPT !.attempts = n]

\* get_id_requirements and get_dress_code
get_page(op, topic, url, responses) ==
    LET content == fetch_page(responses, 1)
    IN  [op |-> op, topic |-> topic, responses |-> responses, url |-> url,
         attempts |-> content.attempts, printed |-> content.printed,
         kind |-> IF content.kind = "text" /\ content.page.body = "empty"
                  THEN "None" ELSE content.kind,
         text |-> IF content.kind = "text" /\ content.page.body # "empty"
                  THEN parse_content(content.page) ELSE <<>>,
         error |-> content.error]

search_by_topic(topic, responses) ==
    IF Lower(topic) = TopicId
    THEN get_page("search_by_topic", topic, urls("id"), responses)
    ELSE IF Lower(topic) = TopicDress
    THEN get_page("search_by_topic", topic, urls("dress_code"), responses)
    ELSE [NoFetch EXCEPT !.op = "search_by_topic", !.topic = topic,
                         !.responses = responses]

EngineIdle == UNCHANGED <<PDF_PATHS, engine, vectorstore, collCount, points, last>>

SearchByTopic(topic, responses) ==
    /\ fetch' = search_by_topic(topic, responses)
    /\ EngineIdle
    /\ UNCHANGED <<classified, session, procs>>

GetIdRequirements(responses) ==
    /\ fetch' = get_page("get_id_requirements", TopicId, urls("id"), responses)
    /\ EngineIdle
    /\ UNCHANGED <<classified, session, procs>>

GetDressCode(responses) ==
    /\ fetch' = get_page("get_dress_code", TopicDress, urls("dress_code"), responses)
    /\ EngineIdle
    /\ UNCHANGED <<classified, session, procs>>

\* a searcher on its own: no engine is constructed
InitFetch ==
    /\ PDF_PATHS = [defined |-> FALSE, paths |-> <<>>]
    /\ InitEngine
    /\ collCount = 0
    /\ InitOthers

NextFetch ==
    \/ \E t \in Topics, rs \in [1..StopAfterAttempt -> Responses] : SearchByTopic(t, rs)
    \/ \E rs \in [1..StopAfterAttempt -> Responses] : GetIdRequirements(rs)
    \/ \E rs \in [1..StopAfterAttempt -> Responses] : GetDressCode(rs)

SpecFetch == InitFetch /\ [][NextFetch]_vars

-----------------------------------------------------------------------------
\* The classification of a query (rag_engine.py, query_type)

\* queries are put together from at most MaxFragments pieces
MaxFragments == 3

Fragments ==
    {<<"D", "r", "e", "s", "s">>,
     <<"w", "E", "A", "R">>,
     <<"I">>,
     <<"d">>,
     <<"I", "d", "e", "n", "t", "i", "f", "i", "c", "a", "t", "i", "o", "n">>}

RECURSIVE Concat(_)
Concat(pieces) ==
    IF pieces = <<>> THEN <<>> ELSE Head(pieces) \o Concat(Tail(pieces))

FragmentQueries ==
    {Concat(ps) : ps \in UNION {[1..n -> Fragments] : n \in 0..MaxFragments}}

Classify(q) ==
    /\ classified' = [op |-> "classify", query |-> q, topic |-> query_type(q)]
    /\ EngineIdle
    /\ UNCHANGED <<fetch, session, procs>>

NextClassify == \E q \in FragmentQueries : Classify(q)

SpecClassify == InitFetch /\ [][NextClassify]_vars

-----------------------------------------------------------------------------
\* The Streamlit application (app.py) and its configuration (config.py)

\* the chat history is followed up to MaxChat messages
MaxChat == 2

\* os.getenv(name, default)
getenv(value, default) == IF value = "unset" THEN default ELSE value

\* the module-level constants of config.py, read once at import
config_module(environ) ==
    [COHERE_API_KEY |-> getenv(environ.COHERE_API_KEY, "None"),
     QDRANT_API_KEY |-> getenv(environ.QDRANT_API_KEY, "None"),
     QDRANT_URL |-> getenv(environ.QDRANT_URL, "None"),
     GOV_UK_BASE_URL |-> getenv(environ.GOV_UK_BASE_URL, "default"),
     GOV_UK_ID_URL |-> getenv(environ.GOV_UK_ID_URL, "default"),
     GOV_UK_DRESS_CODE_URL |-> getenv(environ.GOV_UK_DRESS_CODE_URL, "default")]

\* not var_value
Falsy(v) == v \in {"None", ""}

\* the error validate_config raises, "" when it returns
validate_config(config) ==
    IF Falsy(config.COHERE_API_KEY) \/ Falsy(config.QDRANT_API_KEY) \/ Falsy(config.QDRANT_URL)
    THEN "ValueError"
    ELSE ""

init_session_state(s) ==
    [s EXCEPT !.api_keys_submitted = IF @ = "absent" THEN "False" ELSE @]

\* a run of the script: the session state, the engine object in
\* st.session_state.rag_engine and the backend it talks to
Begin(trigger, upload) ==
    [s |-> [init_session_state(session) EXCEPT
               !.run = [NoRun EXCEPT !.trigger = trigger, !.upload = upload,
                                     !.keyBefore = session.processed_file]],
     e |-> Engine,
     rag_engine |-> IF engine = "absent" THEN "absent" ELSE "constructed"]

\* the form handler storing the flag before it builds the engine
submit_credentials_flag_first(a, blank, cfg, fault) ==
    LET typed == IF blank THEN "" ELSE "typed"
        env   == [a.s.environ EXCEPT !.COHERE_API_KEY = typed, !.QDRANT_API_KEY = typed,
                                     !.QDRANT_URL = typed]
        b     == [a EXCEPT !.s.environ = env, !.s.api_keys_submitted = "True"]
        built == RAGEngine_init(a.e, cfg, IF fault = "init2" THEN "none" ELSE fault, AllOk)
        again == init_vectorstore(built, IF fault = "init2" THEN "create" ELSE "none")
    IN  IF validate_config(a.s.config) # ""
        THEN [b EXCEPT !.s.run.error = "ValueError", !.s.api_keys_submitted = "False"]
        ELSE IF built.err # ""
        THEN [b EXCEPT !.e = [built EXCEPT !.err = "", !.vectorstore = a.e.vectorstore],
                       !.s.run.error = built.err]
        ELSE IF again.err # ""
        THEN [b EXCEPT !.e = [again EXCEPT !.err = ""], !.rag_engine = "constructed",
                       !.s.run.error = again.err]
        ELSE [b EXCEPT !.e = again, !.rag_engine = "constructed",
                       !.s.validated = a.s.config, !.s.built_with = a.s.config]

\* "Submit Credentials": the form values go to os.environ, validate_config
\* checks the constants of config.py, RAGEngine() reads the same constants;
\* fault "init2" fails the init_vectorstore call that follows the constructor
submit_credentials(a, blank, cfg, fault) ==
    LET typed == IF blank THEN "" ELSE "typed"
        env   == [a.s.environ EXCEPT !.COHERE_API_KEY = typed, !.QDRANT_API_KEY = typed,
                                     !.QDRANT_URL = typed]
        b     == [a EXCEPT !.s.environ = env]
        built == RAGEngine_init(a.e, cfg, IF fault = "init2" THEN "none" ELSE fault, AllOk)
        again == init_vectorstore(built, IF fault = "init2" THEN "create" ELSE "none")
    IN  IF validate_config(a.s.config) # ""
        THEN [b EXCEPT !.s.run.error = "ValueError"]
        ELSE IF built.err # ""
        THEN [b EXCEPT !.e = [built EXCEPT !.err = "", !.vectorstore = a.e.vectorstore],
                       !.s.run.error = built.err]
        ELSE IF again.err # ""
        THEN [b EXCEPT !.e = [again EXCEPT !.err = ""], !.rag_engine = "constructed",
                       !.s.run.error = again.err]
        ELSE [b EXCEPT !.e = again, !.rag_engine = "constructed",
                       !.s.api_keys_submitted = "True",
                       !.s.validated = a.s.config, !.s.built_with = a.s.config]

\* process_uploaded_file: True or False, every exception caught
process_uploaded_file(a, d, fault) ==
    LET r == IF fault = "extract" THEN [a.e EXCEPT !.err = "extract"]
             ELSE add_documents(a.e, process_document(d), fault)
    IN  IF a.rag_engine # "constructed" THEN [ok |-> FALSE, e |-> a.e]
        ELSE [ok |-> r.err = "", e |-> [r EXCEPT !.err = ""]]

\* the upload section ingesting unless processed_file is truthy
upload_section_unless_true(a, d, fault) ==
    IF d # 0 /\ a.s.processed_file # "True"
    THEN LET r == process_uploaded_file(a, d, fault)
         IN  [a EXCEPT !.e = r.e,
                       !.s.run.ingested = TRUE, !.s.run.ingestOk = r.ok,
                       !.s.run.hadEngine = (a.rag_engine = "constructed"),
                       !.s.processed_file = IF r.ok THEN "True" ELSE @]
    ELSE a

\* the upload section of main: d is the file in the uploader, 0 for none
upload_section(a, d, fault) ==
    IF d # 0 /\ a.s.processed_file = "absent"
    THEN LET r == process_uploaded_file(a, d, fault)
         IN  [a EXCEPT !.e = r.e,
                       !.s.run.ingested = TRUE, !.s.run.ingestOk = r.ok,
                       !.s.run.hadEngine = (a.rag_engine = "constructed"),
                       !.s.processed_file = IF r.ok THEN "True" ELSE @]
    ELSE a

\* the chat section of main for a typed query
chat(a, q, fault) ==
    LET asked == [a EXCEPT !.s.chat_history = Append(@, "user"),
                           !.s.run.queried = TRUE,
                           !.s.run.hadEngine = (a.rag_engine = "constructed")]
        r     == process_query(a.e, q, fault)
    IN  IF a.rag_engine # "constructed"
        THEN [asked EXCEPT !.s.run.error = "AttributeError"]
        ELSE IF r.e.err # ""
        THEN [asked EXCEPT !.e = [r.e EXCEPT !.err = ""], !.s.run.error = r.e.err]
        ELSE [asked EXCEPT !.e = r.e, !.s.chat_history = Append(@, "assistant")]

\* "Clear All Data"
clear_all_data(a, fault) ==
    LET r == clear_vectorstore(a.e, fault)
    IN  IF a.rag_engine = "constructed" /\ r.err # ""
        THEN [a EXCEPT !.s.run.error = r.err]
        ELSE [a EXCEPT !.e = IF a.rag_engine = "constructed" THEN r ELSE @,
                       !.s.chat_history = <<>>,
                       !.s.processed_file = "False"]

\* "Reset Credentials": st.session_state.clear()
reset_credentials(a) ==
    [a EXCEPT !.s.api_keys_submitted = "absent", !.s.processed_file = "absent",
              !.s.chat_history = <<>>, !.s.validated = NoConfig,
              !.s.built_with = NoConfig,
              !.rag_engine = "absent", !.e.vectorstore = "None"]

\* the end of a run of the script
Store(a) ==
    /\ session' = a.s
    /\ engine' = IF a.rag_engine = "absent" THEN "absent"
                 ELSE IF a.s.api_keys_submitted = "True" THEN "constructed"
                 ELSE "stored"
    /\ Commit(a.e)
    /\ UNCHANGED <<PDF_PATHS, last, fetch, classified, procs>>

\* a fault of the upload is offered where the upload is reached
UploadReached(a, ufault) ==
    ufault = "none" \/ (a.s.run.ingested /\ ~a.s.run.ingestOk)

\* import of app.py: config.py reads the environment and validates it
AppImport ==
    /\ session.phase = "start"
    /\ session' = [session EXCEPT
                      !.config = config_module(session.environ),
                      !.phase = IF validate_config(config_module(session.environ)) = ""
                                THEN "running" ELSE "crashed"]
    /\ EngineIdle
    /\ UNCHANGED <<fetch, classified, procs>>

AppSubmitCredentials(blank, fault) ==
    /\ session.phase = "running"
    /\ session.api_keys_submitted # "True"
    /\ \E a \in {submit_credentials(Begin("submit", 0), blank, PDF_PATHS, fault)} :
           /\ fault = "none" \/ a.s.run.error # ""
           /\ Store(a)

\* a run no widget of which was used; it stops at the form until the
\* credentials were accepted
AppRerun(upload, ufault) ==
    /\ session.phase = "running"
    /\ \E a \in {IF session.api_keys_submitted = "True"
                  THEN upload_section(Begin("rerun", upload), upload, ufault)
                  ELSE Begin("rerun", 0)} :
           /\ UploadReached(a, ufault)
           /\ session.api_keys_submitted # "True" => upload = 0
           /\ Store(a)

AppAsk(upload, ufault, q, fault) ==
    /\ session.phase = "running"
    /\ session.api_keys_submitted = "True"
    /\ Len(session.chat_history) + 2 <= MaxChat
    /\ \E u \in {upload_section(Begin("ask", upload), upload, ufault)} :
           /\ UploadReached(u, ufault)
           /\ \E a \in {chat(u, q, fault)} :
                  /\ fault = "none" \/ a.s.run.error # ""
                  /\ Store(a)

AppClearChat(upload, ufault) ==
    /\ session.phase = "running"
    /\ session.api_keys_submitted = "True"
    /\ \E u \in {upload_section(Begin("clear_chat", upload), upload, ufault)} :
           /\ UploadReached(u, ufault)
           /\ Store([u EXCEPT !.s.chat_history = <<>>])

AppClearAllData(upload, ufault, fault) ==
    /\ session.phase = "running"
    /\ session.api_keys_submitted = "True"
    /\ \E u \in {upload_section(Begin("clear_all", upload), upload, ufault)} :
           /\ UploadReached(u, ufault)
           /\ \E a \in {clear_all_data(u, fault)} :
                  /\ fault = "none" \/ a.s.run.error # ""
                  /\ Store(a)

AppResetCredentials ==
    /\ session.phase = "running"
    /\ session.api_keys_submitted = "True"
    /\ Store(reset_credentials(Begin("reset", 0)))

InitApp ==
    /\ PDF_PATHS \in {[defined |-> FALSE, paths |-> <<>>],
                      [defined |-> TRUE, paths |-> ConfiguredPaths]}
    /\ InitEngine
    /\ fetch = NoFetch
    /\ classified = NoClassified
    /\ procs = NoProcs
    /\ \E env \in Environs : session = [NoSession EXCEPT !.environ = env]

\* the file in the uploader, 0 for none
Uploads == {0} \cup UploadDocs

NextApp ==
    \/ AppImport
    \/ \E blank \in BOOLEAN, f \in {"none", "init", "delete", "init2"} :
          AppSubmitCredentials(blank, f)
    \/ \E d \in Uploads, uf \in {"none", "insert"} : AppRerun(d, uf)
    \/ \E d \in Uploads, uf \in {"none", "insert"}, q \in Queries,
          f \in {"none", "create", "search1", "generate"} : AppAsk(d, uf, q, f)
    \/ \E d \in Uploads, uf \in {"none", "insert"} : AppClearChat(d, uf)
    \/ \E d \in Uploads, uf \in {"none", "insert"}, f \in {"none", "delete"} :
          AppClearAllData(d, uf, f)
    \/ AppResetCredentials

SpecApp == InitApp /\ [][NextApp]_vars

-----------------------------------------------------------------------------
\* Sessions running at the same time: each handler is a sequence of calls
\* to the backend, and the calls of two sessions interleave

\* the engine of session p and the shared collection
EngineOf(p) ==
    [collCount |-> collCount, points |-> points, vectorstore |-> procs[p].vectorstore,
     err |-> "", creates |-> 0, printed |-> <<>>]

\* the backend after a call of session p, and the session's own state
Step(p, r, proc) ==
    /\ collCount' = r.collCount
    /\ points' = r.points
    /\ procs' = [procs EXCEPT ![p] = [proc EXCEPT !.vectorstore = r.vectorstore]]
    /\ UNCHANGED <<PDF_PATHS, engine, vectorstore, last, fetch, classified, session>>

Resting(p) == procs[p].pc \in {"idle", "done"}

\* a handler starts with these fields of the session
Handler(p, op, pc, next) ==
    [procs[p] EXCEPT !.op = op, !.pc = pc, !.next = next, !.query = <<>>, !.doc = 0,
                     !.i = 0, !.hits = <<>>, !.context = <<>>, !.answer = "",
                     !.evidence = <<>>, !.printed = <<>>, !.error = ""]

\* "Submit Credentials": RAGEngine(), which is init_vectorstore and
\* load_all_documents, then init_vectorstore() once more
StartConstruct(p) ==
    /\ Resting(p)
    /\ procs[p].rag_engine = "absent"
    /\ Step(p, [EngineOf(p) EXCEPT !.vectorstore = "None"],
            Handler(p, "construct", "init", "exists"))

StartQuery(p, q) ==
    /\ Resting(p)
    /\ procs[p].rag_engine = "constructed"
    /\ Step(p, EngineOf(p),
            [Handler(p, "query",
                     IF procs[p].vectorstore = "None" THEN "init" ELSE "search1",
                     "search1") EXCEPT !.query = q])

StartAddDocument(p, d) ==
    /\ Resting(p)
    /\ procs[p].rag_engine = "constructed"
    /\ Step(p, EngineOf(p),
            [Handler(p, "addDocument",
                     IF procs[p].vectorstore = "None" THEN "init" ELSE "insert",
                     "insert") EXCEPT !.doc = d])

StartClear(p) ==
    /\ Resting(p)
    /\ procs[p].rag_engine = "constructed"
    /\ Step(p, EngineOf(p), Handler(p, "clear", "exists", "done"))

\* st.session_state.clear()
ConcReset(p) ==
    /\ Resting(p)
    /\ procs[p].rag_engine = "constructed"
    /\ Step(p, [EngineOf(p) EXCEPT !.vectorstore = "None"],
            [Handler(p, "none", "idle", "idle") EXCEPT !.rag_engine = "absent"])

\* init_vectorstore: create_collection, "already exists" passed over
CallInit(p) ==
    /\ procs[p].pc = "init"
    /\ \E r \in {init_vectorstore(EngineOf(p), "none")} :
           Step(p, r,
                IF procs[p].next = "insert" /\ procs[p].op = "construct" /\ ~PDF_PATHS.defined
                THEN [procs[p] EXCEPT !.pc = "done", !.error = "AttributeError"]
                ELSE [procs[p] EXCEPT !.pc = procs[p].next,
                                      !.i = IF procs[p].next = "insert" THEN 1 ELSE @,
                                      !.rag_engine =
                                          IF procs[p].op = "construct" /\ procs[p].next = "done"
                                          THEN "constructed" ELSE @])

\* after clear_vectorstore: load_all_documents goes on, the clear handler ends
Cleared(p) ==
    IF procs[p].op = "construct"
    THEN [procs[p] EXCEPT !.pc = "init", !.next = "insert"]
    ELSE [procs[p] EXCEPT !.pc = "done"]

\* clear_vectorstore: collection_exists
CallExists(p) ==
    /\ procs[p].pc = "exists"
    /\ IF collCount > 0
       THEN Step(p, EngineOf(p), [procs[p] EXCEPT !.pc = "delete"])
       ELSE Step(p, [EngineOf(p) EXCEPT !.vectorstore = "None"], Cleared(p))

\* clear_vectorstore: delete_collection, then self.vectorstore = None
CallDelete(p) ==
    /\ procs[p].pc = "delete"
    /\ Step(p, [EngineOf(p) EXCEPT !.collCount = 0, !.points = NoPoints,
                                   !.vectorstore = "None"],
            Cleared(p))

\* the document the session inserts next
Inserting(p) ==
    IF procs[p].op = "construct" THEN PDF_PATHS.paths[procs[p].i] ELSE procs[p].doc

\* vectorstore.add_documents: of the loop of load_all_documents, which
\* prints a failure and goes on, or of process_uploaded_file, which shows
\* the error and prints nothing
CallInsert(p) ==
    /\ procs[p].pc = "insert"
    /\ \A c \in Range(process_document(Inserting(p))) : points[c] < MaxCopies
    /\ \E r \in {add_documents(EngineOf(p), process_document(Inserting(p)), "none")} :
           LET failed == r.err # ""
               last_one == procs[p].op # "construct" \/ procs[p].i >= Len(PDF_PATHS.paths)
           IN  Step(p, [r EXCEPT !.err = ""],
                    [procs[p] EXCEPT
                        !.printed = IF failed /\ procs[p].op = "construct"
                                    THEN Append(@, Inserting(p)) ELSE @,
                        !.error = IF failed /\ procs[p].op # "construct" THEN r.err ELSE @,
                        !.i = IF last_one THEN @ ELSE @ + 1,
                        !.pc = IF ~last_one THEN "insert"
                               ELSE IF procs[p].op = "construct" THEN "init"
                               ELSE "done",
                        !.next = IF last_one THEN "done" ELSE @])

\* relevant_docs = retriever.get_relevant_documents(query)
CallSearch1(p) ==
    /\ procs[p].pc = "search1"
    /\ \E first \in {Retrieve(EngineOf(p), procs[p].query, FALSE, FALSE)} :
           Step(p, EngineOf(p),
                IF first.err # ""
                THEN [procs[p] EXCEPT !.pc = "done", !.error = first.err]
                ELSE IF first.docs = <<>>
                THEN [procs[p] EXCEPT !.pc = "done",
                                      !.answer = NoAnswer(EngineOf(p)).answer]
                ELSE [procs[p] EXCEPT !.pc = "search2", !.hits = first.docs])

\* retrieval_chain.invoke: the chain's own retrieval, then the chat model
CallSearch2(p) ==
    /\ procs[p].pc = "search2"
    /\ \E a \in {LocalAnswer(EngineOf(p), procs[p].query, procs[p].hits, "none")} :
           Step(p, EngineOf(p),
                [procs[p] EXCEPT !.pc = "done", !.error = a.e.err,
                                 !.context = a.context, !.answer = a.answer,
                                 !.evidence = a.evidence])

\* a deployment whose config.py lists the documents, two sessions opened
InitConc ==
    /\ PDF_PATHS = [defined |-> TRUE, paths |-> ConfiguredPaths]
    /\ InitEngine
    /\ InitOthers

NextConc ==
    \E p \in Sessions :
        \/ StartConstruct(p)
        \/ \E q \in {QWearId, QHi} : StartQuery(p, q)
        \/ \E d \in UploadDocs : StartAddDocument(p, d)
        \/ StartClear(p)
        \/ ConcReset(p)
        \/ CallInit(p)
        \/ CallExists(p)
        \/ CallDelete(p)
        \/ CallInsert(p)
        \/ CallSearch1(p)
        \/ CallSearch2(p)

SpecConc == InitConc /\ [][NextConc]_vars

---------------------------------------------------------------------------
(* Properties *)

IsQuery == last.op = "query"
Answered == IsQuery /\ last.outcome = "returned"
IsLoad == last.op \in {"loadAll", "construct"}

\* C1: a query whose similarity search returned at least one chunk at or
\* above the score threshold fetches no external page, and when it returns
\* it returns non-empty evidence.
C1_LocalAnswerHasEvidence ==
    (IsQuery /\ last.hits # <<>>) =>
        /\ last.fetched = <<>>
        /\ last.outcome = "returned" => last.evidence # <<>>

C1_Witness ==
    /\ Answered
    /\ last.hits # <<>>
    /\ Len(last.evidence) = K
    /\ last.answer = GeneratedText

\* C2: a query that finds no chunk above the threshold and whose topic is id
\* or dress_code fetches that topic's page exactly once, and returns empty
\* evidence.
C2_FallbackFetchesTopicPage ==
    (Answered /\ last.hits = <<>> /\ query_type(last.query) \in {"id", "dress_code"}) =>
        /\ last.fetched = <<urls(query_type(last.query))>>
        /\ last.evidence = <<>>

\* C3: a query that finds no chunk above the threshold and whose topic is
\* general fetches nothing, does not call the chat model, and returns the
\* fixed apology with empty evidence.
C3_GeneralNoAnswer ==
    (Answered /\ last.hits = <<>> /\ query_type(last.query) = "general") =>
        /\ last.fetched = <<>>
        /\ last.generated = 0
        /\ last.answer = Apology
        /\ last.evidence = <<>>

\* the collection holds chunks, none of them close enough to the query
C3_Witness ==
    /\ Answered
    /\ last.hits = <<>>
    /\ query_type(last.query) = "general"
    /\ points # NoPoints
    /\ last.answer = Apology

\* C4: process_query raises only when the embedding or the chat model
\* fails; a failure of the index is absorbed.
C4_RaisesOnlyOnModelFailure ==
    (IsQuery /\ last.outcome = "raised") => last.error \in {"embedding", "generation"}

\* C5: a process_query that returns has left the existence and the contents
\* of the collection unchanged and has sent no create_collection request.
C5_QueryIsReadOnly ==
    [][(last'.op = "query" /\ last'.outcome = "returned") =>
          /\ collCount' = collCount
          /\ points' = points
          /\ last'.creates = 0]_vars

\* the documents of the configured list whose loading failed, in order
FailedDocs(outcome) == SelectSeq(ConfiguredPaths, LAMBDA d : outcome[d] # "ok")

\* C6: when the reset of the collection succeeded and a list of documents
\* is configured, load_all_documents returns, the failure of each failing
\* document is printed, and every chunk of every other document is in the
\* collection and is retrieved by the queries it is close enough to.
C6_ContinueOnError ==
    (IsLoad /\ last.fault = "none" /\ PDF_PATHS.defined) =>
        /\ last.outcome = "returned"
        /\ last.printed = FailedDocs(last.docs)
        /\ vectorstore = "QdrantVectorStore"
        /\ \A d \in Range(PDF_PATHS.paths) : last.docs[d] = "ok" =>
              \A c \in Range(process_document(d)) :
                 /\ points[c] >= 1
                 /\ \A q \in Queries : AboveThreshold(q, c) =>
                       c \in Range(get_relevant_documents(points, q))

\* three documents, the second fails extraction
C6_Witness ==
    /\ last.op = "loadAll"
    /\ last.outcome = "returned"
    /\ last.docs = [d \in Range(ConfiguredPaths) |-> IF d = 2 THEN "extract" ELSE "ok"]
    /\ points[1] = 1 /\ points[2] = 1 /\ points[3] = 0 /\ points[4] = 1

\* C7: when load_all_documents returns (alone or inside the constructor),
\* the collection exists and holds exactly one point for each chunk of each
\* configured document that was ingested, and nothing else.
C7_FullReplace ==
    (IsLoad /\ last.outcome = "returned") =>
        /\ collCount = 1
        /\ \A c \in Chunks :
              points[c] = IF \E d \in Range(PDF_PATHS.paths) :
                                /\ last.docs[d] = "ok"
                                /\ c \in Range(process_document(d))
                          THEN 1 ELSE 0

\* a load over a collection that held points
C7_Witness ==
    /\ IsLoad
    /\ last.outcome = "returned"
    /\ last.hadPoints
    /\ points # NoPoints

\* C8: the backend never holds more than one collection of the configured
\* name, and an init_vectorstore that follows an init_vectorstore (called
\* directly, or by the constructor as in sidebar_api_form) leaves one
\* collection with the contents it had.
C8_OneCollection ==
    /\ [](/\ collCount <= 1
          /\ (last.op = "construct" /\ last.outcome = "returned") =>
                (collCount = 1 /\ points = last.loaded))
    /\ [][(/\ Returned(last) \in {"init", "construct"}
            /\ last'.op = "init"
            /\ last'.outcome = "returned") =>
             /\ collCount' = 1
             /\ points' = points]_vars

C8_Witness ==
    /\ last.op = "init"
    /\ last.prev = "init"
    /\ last.outcome = "returned"
    /\ collCount = 1
    /\ points # NoPoints

\* C9: init_vectorstore returns when the collection already exists, with the
\* handle set and the collection as it was; it raises when the backend fails,
\* and then leaves the handle and the backend as they were.
C9_InitErrors ==
    /\ []((last.op = "construct" /\ last.built) =>
             /\ collCount = 1
             /\ points = last.loaded
             /\ vectorstore = "QdrantVectorStore"
             /\ last.outcome = (IF last.fault = "init2" THEN "raised" ELSE "returned"))
    /\ [][last'.op = "init" =>
          /\ (last'.fault = "none" /\ collCount > 0) =>
                /\ last'.outcome = "returned"
                /\ vectorstore' = "QdrantVectorStore"
                /\ collCount' = collCount
                /\ points' = points
          /\ last'.fault = "create" =>
                /\ last'.outcome = "raised"
                /\ vectorstore' = vectorstore
                /\ collCount' = collCount
                /\ points' = points]_vars

\* the collection exists, the handle is set, and the call returned
C9_Witness ==
    /\ last.op = "init"
    /\ last.fault = "none"
    /\ last.outcome = "returned"
    /\ last.creates = 1
    /\ last.hadPoints

\* C10: a clear_vectorstore that returns leaves the collection absent and
\* the handle unset; one that follows a clear_vectorstore, with the backend
\* reachable, returns and leaves that state as it was.
C10_ClearIdempotent ==
    [][last'.op = "clear" =>
          /\ last'.outcome = "returned" =>
                collCount' = 0 /\ points' = NoPoints /\ vectorstore' = "None"
          /\ (Returned(last) = "clear" /\ last'.fault = "none") =>
                /\ last'.outcome = "returned"
                /\ collCount' = collCount
                /\ points' = points
                /\ vectorstore' = vectorstore]_vars

C10_Witness ==
    /\ last.op = "clear"
    /\ last.prev = "clear"
    /\ last.outcome = "returned"
    /\ collCount = 0
    /\ vectorstore = "None"

\* C15: add_documents removes no point: every chunk keeps the points it
\* had, and when the call returns the collection holds in addition exactly
\* one new point for each chunk of the uploaded document.
C15_UploadAppends ==
    [][last'.op = "addDocument" =>
          /\ collCount' >= collCount
          /\ \A c \in Chunks : points'[c] >= points[c]
          /\ last'.outcome = "returned" =>
                \A c \in Chunks :
                   points'[c] = points[c]
                      + (IF c \in Range(process_document(last'.doc)) THEN 1 ELSE 0)]_vars

\* an upload into a collection that already held the configured documents
C15_Witness ==
    /\ last.op = "addDocument"
    /\ last.outcome = "returned"
    /\ last.hadPoints
    /\ last.doc = 4
    /\ points[5] = 1 /\ points[3] = 1 /\ points[1] = 1

\* C18: after a clear_vectorstore with no ingestion since, a query whose
\* external calls all succeed returns, and every query that returns hands
\* back the fixed apology with empty evidence.
C18_ApologyAfterClear ==
    (IsQuery /\ last.sinceClear) =>
        /\ last.fault = "none" => last.outcome = "returned"
        /\ last.outcome = "returned" =>
              last.answer = Apology /\ last.evidence = <<>>

\* the second query in a row after the clear
C18_Witness ==
    /\ Answered
    /\ last.sinceClear
    /\ last.prev = "query"
    /\ last.answer = Apology

\* the attempt a retry of up to three ends on: the first one
\* that succeeds, or the last of the three
LastAttempt(responses) ==
    IF \E i \in 1..StopAfterAttempt : responses[i].status = "ok"
    THEN CHOOSE i \in 1..StopAfterAttempt :
            /\ responses[i].status = "ok"
            /\ \A j \in 1..(i - 1) : responses[j].status # "ok"
    ELSE StopAfterAttempt

\* C11: a fetch of a page makes attempts until one succeeds, three at most,
\* and a later attempt that succeeds with a page yields that page's text.
C11_RetriesUpToThree ==
    (fetch.op # "none" /\ fetch.url # "") =>
        /\ fetch.attempts = LastAttempt(fetch.responses)
        /\ (/\ fetch.responses[LastAttempt(fetch.responses)].status = "ok"
            /\ fetch.responses[LastAttempt(fetch.responses)].page.body # "empty")
           => (/\ fetch.kind = "text"
               /\ fetch.text = parse_content(fetch.responses[LastAttempt(fetch.responses)].page))

\* C12: every call of the searcher returns text or None and raises nothing.
C12_NeverRaises ==
    fetch.op # "none" =>
        /\ fetch.kind \in {"text", "None"}
        /\ fetch.error = ""
        /\ fetch.kind = "None" => fetch.text = <<>>

\* a topic fetch whose request failed, answered by None
C12_Witness ==
    /\ fetch.op = "search_by_topic"
    /\ fetch.topic = TopicDressCaps
    /\ fetch.responses[1].status = "non2xx"
    /\ fetch.kind = "None"

\* the same letter in either case, or the same character
SameLetter(a, b) ==
    \/ a = b
    \/ \E k \in DOMAIN UpperCase : {a, b} = {UpperCase[k], LowerCase[k]}

\* the word occurs in the query, in whatever case
Mentions(q, word) ==
    \E i \in 0..(Len(q) - Len(word)) :
        \A j \in 1..Len(word) : SameLetter(q[i + j], word[j])

DressRule(q) ==
    Mentions(q, <<"d","r","e","s","s">>) \/ Mentions(q, <<"w","e","a","r">>)

IdRule(q) ==
    \/ Mentions(q, <<"i","d">>)
    \/ Mentions(q, <<"i","d","e","n","t","i","f","i","c","a","t","i","o","n">>)

\* C13: every query gets exactly one topic: dress_code when it mentions
\* 'dress' or 'wear' in any case, else id when it mentions 'id' or
\* 'identification' in any case, else general.
C13_ClassifyByPriority ==
    classified.op = "classify" =>
        /\ classified.topic \in {"dress_code", "id", "general"}
        /\ classified.topic = "dress_code" <=> DressRule(classified.query)
        /\ classified.topic = "id" <=>
              (~DressRule(classified.query) /\ IdRule(classified.query))
        /\ classified.topic = "general" <=>
              (~DressRule(classified.query) /\ ~IdRule(classified.query))

\* a query in mixed case that matches both rules
C13_Witness ==
    /\ classified.op = "classify"
    /\ DressRule(classified.query)
    /\ IdRule(classified.query)
    /\ classified.query # Lower(classified.query)
    /\ classified.topic = "dress_code"

\* C14: a query is handed to process_query only while every required
\* configuration value (the Cohere key, the Qdrant key and URL, the three
\* reference URLs) is present, and the engine was built with the
\* configuration that was validated.
C14_NoQueryWithoutConfig ==
    session.run.queried =>
        /\ ~Falsy(session.config.COHERE_API_KEY)
        /\ ~Falsy(session.config.QDRANT_API_KEY)
        /\ ~Falsy(session.config.QDRANT_URL)
        /\ ~Falsy(session.config.GOV_UK_BASE_URL)
        /\ ~Falsy(session.config.GOV_UK_ID_URL)
        /\ ~Falsy(session.config.GOV_UK_DRESS_CODE_URL)
        /\ session.built_with = session.validated

\* C19: api_keys_submitted is True only while rag_engine holds a constructed
\* engine; a submit that failed leaves it False; the upload, query and clear
\* handlers act on a constructed engine.
C19_SubmittedImpliesEngine ==
    /\ session.api_keys_submitted = "True" => engine = "constructed"
    /\ (session.run.trigger = "submit" /\ session.run.error # "")
          => session.api_keys_submitted = "False"
    /\ session.run.hadEngine

\* the run in which the credentials were accepted
C19_Witness ==
    /\ session.api_keys_submitted = "True"
    /\ session.run.trigger = "submit"
    /\ engine = "constructed"

\* C20: a run ingests the uploaded file only when it began with no
\* processed_file key; a successful ingestion stores True and Clear All Data
\* stores False, and only Reset Credentials removes the key.
C20_IngestOnlyWhileKeyAbsent ==
    /\ [](/\ session.run.ingested => session.run.keyBefore = "absent"
          /\ (session.run.ingested /\ session.run.ingestOk)
                => session.processed_file \in {"True", "False"}
          /\ (session.run.trigger = "clear_all" /\ session.run.error = "")
                => session.processed_file = "False")
    /\ [][(session.processed_file # "absent" /\ session'.processed_file = "absent")
             => session'.run.trigger = "reset"]_vars

\* a run after Clear All Data with a file in the uploader, which it leaves alone
C20_Witness ==
    /\ session.run.trigger = "rerun"
    /\ session.run.upload = 4
    /\ session.run.keyBefore = "False"
    /\ ~session.run.ingested

\* C16: a query that ends with a generated answer returns as evidence
\* exactly the documents that were put into the prompt, whatever the other
\* session did to the collection meanwhile.
C16_EvidenceIsContext ==
    \A p \in Sessions :
        (procs[p].op = "query" /\ procs[p].pc = "done"
            /\ procs[p].answer = GeneratedText)
        => procs[p].evidence = procs[p].context

\* C17: when both sessions have constructed their engine, the collection
\* exists and holds every chunk of every configured document exactly once,
\* and neither load met a failure.
C17_LoadsSerialized ==
    (\A p \in Sessions : procs[p].op = "construct" /\ procs[p].pc = "done")
    => /\ collCount = 1
       /\ \A p \in Sessions : procs[p].error = "" /\ procs[p].printed = <<>>
       /\ \A c \in Chunks :
             points[c] = IF \E i \in DOMAIN PDF_PATHS.paths :
                               c \in Range(process_document(PDF_PATHS.paths[i]))
                         THEN 1 ELSE 0

====
